---- MODULE Spec2Model ----
(***************************************************************************)
(* telegram-relay (src/src/main.rs): a single-process relay.  main loads a *)
(* config file, resolves the chat id of the configured username by         *)
(* long-polling getUpdates when the file holds none, writes it back to the *)
(* file, binds a listener and then serves POST / and GET /health, one      *)
(* task per accepted connection.                                           *)
(*                                                                         *)
(* Strings that the code compares or transforms are sequences of one-      *)
(* character strings; Option<T> is a record [some, val].                   *)
(***************************************************************************)
EXTENDS Integers, Sequences, FiniteSets, TLC

VARIABLES
    pc,         \* position of main: "start", "poll", "wait", "scan", "resolved",
                \* "writing", "ready", "serving", "exited"
    file,       \* the config file on disk
    config,     \* main's local `config` (Option<Config>)
    offset,     \* resolve_chat_id's local `offset` (Option<i64>)
    batch,      \* updates of the current poll response not yet iterated
    processed,  \* updates the for-loop has iterated, in order, in this run
    pollLog,    \* the offset parameter of every poll sent in this run
    chat_id,    \* main's local `chat_id` / `id` (Option<i64>)
    state,      \* the shared AppState (Option<AppState>)
    listener,   \* TRUE once TcpListener::bind has succeeded in this run
    reads,      \* calls of load_config in this run
    writes,     \* calls of std::fs::write in this run
    exitCause,  \* why the last run ended ("none" while it runs)
    hadChatId,  \* "yes"/"no": the config load_config returned held a chat id
    pollFailed, \* TRUE once a poll of this run has failed
    noResult,   \* TRUE when the last poll response of this run was JSON
                \* without a "result" array and no poll was sent since
    feed,       \* Telegram side: the updates not yet confirmed, oldest first
    arrived,    \* Telegram side: number of updates that have ever arrived
    unsaved,    \* chat id an earlier run resolved and did not get on disk
    conns       \* per connection slot: the task serving it and its request

resolverVars == <<offset, batch, processed, pollLog>>
mainVars == <<config, chat_id, state, listener>>
runVars == <<reads, writes, exitCause, hadChatId, pollFailed, noResult>>
remoteVars == <<feed, arrived>>

vars == <<pc, file, resolverVars, mainVars, runVars, remoteVars, unsaved, conns>>

----------------------------------------------------------------------------
(* Bounds of the model *)

MaxUpdates == 2     \* updates that ever arrive at the Telegram feed
MaxPolls == 3       \* polls one run of resolve_chat_id may send
MaxDelivered == 2   \* updates the unconstrained feed delivers to one run

FirstUpdateId == 5  \* id of the first update of the Telegram feed
CachedChatId == 300 \* a telegram_chat_id found in the config file

----------------------------------------------------------------------------
(* Option<T> *)

None == [some |-> FALSE]
Some(v) == [some |-> TRUE, val |-> v]

----------------------------------------------------------------------------
(* Input domains of the startup phase *)

\* telegram_username values of the config file
ConfigUsernames == { <<"@", "A">>, <<"a">>, <<"A">>, <<"@", "@", "a">> }

\* message.from.username values of an update; None: no message, no sender
\* or a username that is no string
SenderUsernames == { Some(<<"a">>), Some(<<"A">>), Some(<<"b">>),
                     Some(<<"@", "a">>), None }

\* The senders of the updates that arrive at Telegram's feed
FeedSenders == { Some(<<"a">>), Some(<<"b">>), None }

\* message.chat.id values of an update; None: absent or no integer
ChatIds == {100, 200}
UpdateChats == { Some(c) : c \in ChatIds } \cup {None}

\* listen_addr values of the config file
ListenAddrs == {"127.0.0.1:8080", "nowhere"}

\* struct Config as load_config deserializes it
AllConfigs == [listen_addr : ListenAddrs, telegram_username : ConfigUsernames,
               telegram_chat_id : {None, Some(CachedChatId)}]

\* The configs the runs against Telegram's feed start from
Configs == { c \in AllConfigs :
               /\ c.telegram_username \in { <<"@", "A">>, <<"a">> }
               /\ c.listen_addr = "nowhere" => c.telegram_username = <<"a">> }

\* The configs the runs against the unconstrained feed start from: every
\* username
AnyFeedConfigs == { c \in AllConfigs :
                      /\ c.listen_addr # "nowhere"
                      /\ c.telegram_chat_id.some => c.telegram_username = <<"a">> }

\* The configs the runs under fairness start from: one username to resolve,
\* and a config with a cached chat id
LiveConfigs == { c \in AnyFeedConfigs :
                   c.telegram_username = <<"@", "A">> \/ c.telegram_chat_id.some }

\* Contents of the config file: a serialized Config, or something that
\* load_config cannot read or parse (missing, empty, cut short)
Unparsable == [valid |-> FALSE]
FileOf(c) == [valid |-> TRUE, config |-> c]

\* An update of the Telegram feed as the resolver reads it
Update(uid, from, chat) == [update_id |-> uid, from |-> from, chat |-> chat]

----------------------------------------------------------------------------
(* Pure helpers of resolve_chat_id *)

\* u8::to_ascii_lowercase: A-Z go to a-z, every other byte stays
UpperLetters == <<"A", "B", "C", "D", "E", "F", "G", "H", "I", "J", "K", "L", "M",
                  "N", "O", "P", "Q", "R", "S", "T", "U", "V", "W", "X", "Y", "Z">>
LowerLetters == <<"a", "b", "c", "d", "e", "f", "g", "h", "i", "j", "k", "l", "m",
                  "n", "o", "p", "q", "r", "s", "t", "u", "v", "w", "x", "y", "z">>
ToAsciiLowercase(ch) ==
    IF \E i \in 1..Len(UpperLetters) : UpperLetters[i] = ch
    THEN LowerLetters[CHOOSE i \in 1..Len(UpperLetters) : UpperLetters[i] = ch]
    ELSE ch

\* Mutant: every leading @ is removed (trim_start_matches)
RECURSIVE StripAllAts(_)
StripAllAts(username) ==
    IF Len(username) > 0 /\ Head(username) = "@" THEN StripAllAts(Tail(username))
    ELSE username

\* username.strip_prefix('@').unwrap_or(username): one leading @ is removed
StripPrefixAt(username) ==
    IF Len(username) > 0 /\ Head(username) = "@" THEN Tail(username) ELSE username

\* str::eq_ignore_ascii_case: same length and bytewise equal after
\* to_ascii_lowercase
EqIgnoreAsciiCase(a, b) ==
    /\ Len(a) = Len(b)
    /\ \A i \in 1..Len(a) : ToAsciiLowercase(a[i]) = ToAsciiLowercase(b[i])

\* Mutant: the cursor is set to the update's id, not the id after it
NextOffsetNoIncrement(off, update) ==
    IF update.update_id.some THEN Some(update.update_id.val) ELSE off

\* The offset the for-loop holds after looking at `update`
NextOffset(off, update) ==
    IF update.update_id.some THEN Some(update.update_id.val + 1) ELSE off

\* Mutant: the sender is not compared; any update with a chat id is taken
MatchOfAnySender(update, username) ==
    IF update.from.some /\ update.chat.some THEN update.chat ELSE None

\* Mutant: a matching sender ends the loop, with chat id 0 when the update
\* has none (as_i64().unwrap_or_default())
MatchOfChatDefaulted(update, username) ==
    IF update.from.some /\ EqIgnoreAsciiCase(update.from.val, username)
    THEN IF update.chat.some THEN update.chat ELSE Some(0)
    ELSE None

\* Some(chat id) when the for-loop returns at `update`, None when it goes on
MatchOf(update, username) ==
    IF /\ update.from.some
       /\ EqIgnoreAsciiCase(update.from.val, username)
       /\ update.chat.some
    THEN update.chat
    ELSE None

\* Mutant: the cursor is never sent
PollParamsWithoutOffset(off) == None

\* The "offset" parameter of a poll: present only when the cursor is set
PollParams(off) == off

----------------------------------------------------------------------------
(* Telegram's getUpdates, as the resolver relies on it: update ids grow by *)
(* one, a poll with offset o confirms (forgets) every update with a        *)
(* smaller id, and the response is a prefix of what is left.               *)

RECURSIVE Confirmed(_, _)
Confirmed(q, off) ==
    IF q = <<>> \/ ~off.some THEN q
    ELSE IF Head(q).update_id.val < off.val THEN Confirmed(Tail(q), off)
    ELSE q

Prefixes(q) == { SubSeq(q, 1, n) : n \in 0..Len(q) }

\* Sequences over S of length at most n
RECURSIVE SeqsUpTo(_, _)
SeqsUpTo(S, n) ==
    IF n = 0 THEN { <<>> }
    ELSE LET shorter == SeqsUpTo(S, n - 1)
         IN shorter \cup { Append(q, x) : q \in { r \in shorter : Len(r) = n - 1 }, x \in S }

\* Updates an unconstrained feed may deliver: any id, also none at all, in
\* any order, from any sender, also without a "message" (no sender and no
\* chat)
AnyUpdateIds == { Some(i) : i \in FirstUpdateId..(FirstUpdateId + 1) } \cup {None}
AnyUpdates ==
    { Update(i, Some(<<"a">>), c) : i \in AnyUpdateIds, c \in { Some(100), None } }
    \cup { Update(i, Some(<<"b">>), Some(100)) : i \in AnyUpdateIds }
    \cup { Update(Some(FirstUpdateId), f, Some(200)) : f \in SenderUsernames }
    \cup { Update(i, None, None) : i \in { Some(FirstUpdateId), None } }

----------------------------------------------------------------------------
(* Inbound requests *)

ApplicationJson ==
    <<"a", "p", "p", "l", "i", "c", "a", "t", "i", "o", "n", "/", "j", "s", "o", "n">>
Markdown == <<"m", "a", "r", "k", "d", "o", "w", "n">>
Html == <<"h", "t", "m", "l">>

\* A header value: bytes that HeaderValue::to_str accepts (visible ASCII,
\* given as text) or bytes that it refuses
Visible(text) == [visible |-> TRUE, text |-> text]
Opaque == [visible |-> FALSE]

\* Content-Type headers; None: the header is absent
ContentTypes ==
    { None,
      Some(Visible(ApplicationJson)),
      Some(Visible(ApplicationJson \o <<";", "q">>)),
      Some(Visible(<<"A">> \o Tail(ApplicationJson))),
      Some(Visible(<<"t", "e", "x", "t">>)),
      Some(Opaque) }

\* telegram-parse-mode headers; None: the header is absent
ParseModeHeaders ==
    { None,
      Some(Visible(Markdown)),
      Some(Visible(<<"M", "a", "r", "k", "D", "O", "W", "N">>)),
      Some(Visible(Html)),
      Some(Visible(<<"H", "T", "M", "L">>)),
      Some(Visible(<<"m", "d">>)),
      Some(Opaque) }

\* Request bodies, named by their bytes
EmptyBody == ""
BadUtf8 == "<FF FE>"
Bodies == { EmptyBody, "hello world", "{\"message\":\"hi\"}", "{\"message\":\"\"}",
            "{\"message\":\"a\\nb\",\"x\":1}", "{\"msg\":\"hi\"}", "{\"message\":7}",
            "\"hi\"", BadUtf8 }

\* String::from_utf8 on the body's bytes
FromUtf8(bytes) == IF bytes = BadUtf8 THEN None ELSE Some(bytes)

\* serde_json::from_slice::<SendRequest>: Some(payload.message), or None for
\* an error.  Unknown fields are ignored, escapes are decoded.
FromSlice(bytes) ==
    CASE bytes = "{\"message\":\"hi\"}" -> Some("hi")
      [] bytes = "{\"message\":\"\"}" -> Some("")
      [] bytes = "{\"message\":\"a\\nb\",\"x\":1}" -> Some("a<LF>b")
      [] OTHER -> None

Request(method, path, ct, pm, body) ==
    [method |-> method, path |-> path, content_type |-> ct, parse_mode |-> pm,
     body |-> body]

\* The requests the relay is served with: every content type with every
\* body, every parse mode with and without JSON, and the other routes
Requests ==
    { Request("POST", "/", ct, None, b) : ct \in ContentTypes, b \in Bodies }
    \cup { Request("POST", "/", ct, pm, b) :
             ct \in { None, Some(Visible(ApplicationJson)) }, pm \in ParseModeHeaders,
             b \in { "hello world", "{\"message\":\"hi\"}" } }
    \cup { Request(r[1], r[2], None, pm, b) :
             r \in { <<"GET", "/health">>, <<"POST", "/health">>, <<"GET", "/">>,
                     <<"DELETE", "/foo">> },
             pm \in { None, Some(Visible(Markdown)) }, b \in { EmptyBody, "hello world" } }

\* The requests a run of the whole program is tried with
ProbeRequests ==
    { Request("POST", "/", Some(Visible(ApplicationJson)), Some(Visible(Markdown)),
              "{\"message\":\"hi\"}"),
      Request("POST", "/", Some(Visible(ApplicationJson)), None, "{\"msg\":\"hi\"}"),
      Request("POST", "/", None, None, "hello world"),
      Request("POST", "/", None, None, EmptyBody),
      Request("POST", "/", None, None, BadUtf8),
      Request("GET", "/health", None, None, EmptyBody),
      Request("DELETE", "/foo", None, None, EmptyBody) }

\* What Telegram answers to sendMessage: 2xx, or a status and body text
\* (an unreadable body reads as ""), or the call fails in transport
SendFailures ==
    { [status |-> 400, body |-> "chat not found"], [status |-> 500, body |-> ""] }

----------------------------------------------------------------------------
(* Pure helpers of handle_request *)

StartsWith(s, prefix) ==
    /\ Len(s) >= Len(prefix)
    /\ SubSeq(s, 1, Len(prefix)) = prefix

\* headers().get(name).and_then(|v| v.to_str().ok())
HeaderStr(h) == IF h.some /\ h.val.visible THEN Some(h.val.text) ELSE None

\* Lines 72-77
IsJson(req) ==
    LET ct == HeaderStr(req.content_type)
    IN ct.some /\ StartsWith(ct.val, ApplicationJson)

\* str::to_lowercase on a to_str() result, which is ASCII
ToLowercase(s) == [i \in 1..Len(s) |-> ToAsciiLowercase(s[i])]

\* Mutant: the header value is matched without to_lowercase
ParseModeCaseSensitive(req) ==
    LET v == HeaderStr(req.parse_mode)
    IN IF ~v.some THEN None
       ELSE IF v.val = Markdown THEN Some("MarkdownV2")
       ELSE IF v.val = Html THEN Some("HTML")
       ELSE None

\* Lines 79-88: the tag handed to send_telegram_message
ParseMode(req) ==
    LET v == HeaderStr(req.parse_mode)
    IN IF ~v.some THEN None
       ELSE IF ToLowercase(v.val) = Markdown THEN Some("MarkdownV2")
       ELSE IF ToLowercase(v.val) = Html THEN Some("HTML")
       ELSE None

\* Mutant: the arms are chosen by the path, whatever the method
RoutePathOnly(req) ==
    IF req.path = "/" THEN "send"
    ELSE IF req.path = "/health" THEN "health"
    ELSE "not_found"

\* Line 70: the arm of the match
Route(req) ==
    IF req.method = "POST" /\ req.path = "/" THEN "send"
    ELSE IF req.method = "GET" /\ req.path = "/health" THEN "health"
    ELSE "not_found"

Response(status, key, text) == [status |-> status, key |-> key, text |-> text]

\* Mutant: the check for an empty text body is missing
NormalizeWithoutEmptyCheck(req) ==
    IF IsJson(req)
    THEN LET payload == FromSlice(req.body)
         IN IF payload.some
            THEN [kind |-> "message", message |-> payload.val]
            ELSE [kind |-> "response",
                  response |-> Response(400, "error", <<"invalid JSON", req.body>>)]
    ELSE LET text == FromUtf8(req.body)
         IN IF ~text.some
            THEN [kind |-> "err"]
            ELSE [kind |-> "message", message |-> text.val]

\* Mutant: the empty check is applied to the JSON message as well
NormalizeRejectingEmptyMessage(req) ==
    LET text == IF IsJson(req) THEN FromSlice(req.body) ELSE FromUtf8(req.body)
    IN IF ~text.some
       THEN IF IsJson(req)
            THEN [kind |-> "response",
                  response |-> Response(400, "error", <<"invalid JSON", req.body>>)]
            ELSE [kind |-> "err"]
       ELSE IF text.val = ""
       THEN [kind |-> "response", response |-> Response(400, "error", <<"empty body">>)]
       ELSE [kind |-> "message", message |-> text.val]

\* Lines 92-117: the message to forward, a 400 response, or Err
Normalize(req) ==
    IF IsJson(req)
    THEN LET payload == FromSlice(req.body)
         IN IF payload.some
            THEN [kind |-> "message", message |-> payload.val]
            ELSE [kind |-> "response",
                  response |-> Response(400, "error", <<"invalid JSON", req.body>>)]
    ELSE LET text == FromUtf8(req.body)
         IN IF ~text.some
            THEN [kind |-> "err"]
            ELSE IF text.val = ""
            THEN [kind |-> "response", response |-> Response(400, "error", <<"empty body">>)]
            ELSE [kind |-> "message", message |-> text.val]

\* Lines 47-53: the JSON body of the sendMessage call
OutboundMessage(st, text, parse_mode) ==
    [chat_id |-> st.chat_id, text |-> text, parse_mode |-> parse_mode]

\* A connection slot.  st: "closed" (no task), "idle" (task waits for a
\* request), "body" (handle_request awaits req.collect()), "send" (it awaits
\* send_telegram_message), "done" (response returned), "failed"
\* (handle_request returned Err, serve_connection ended with an error).
\* calls: sendMessage requests posted for the request; out: the last one;
\* answer: what Telegram made of it; err: what handle_request's Err is from
Conns == {1, 2}
ClosedConn ==
    [st |-> "closed", req |-> None, resp |-> None, calls |-> 0, out |-> None,
     answer |-> None, err |-> "none"]
IdleConn == [ClosedConn EXCEPT !.st = "idle"]

----------------------------------------------------------------------------
(* Initial state: the process has not started; the config file is any      *)
(* file an operator may have left there.                                   *)

InitWith(configs) ==
    /\ pc = "exited"
    /\ file \in { FileOf(c) : c \in configs } \cup {Unparsable}
    /\ config = None
    /\ offset = None
    /\ batch = <<>>
    /\ processed = <<>>
    /\ pollLog = <<>>
    /\ chat_id = None
    /\ state = None
    /\ listener = FALSE
    /\ reads = 0
    /\ writes = 0
    /\ exitCause = "none"
    /\ hadChatId = "unknown"
    /\ pollFailed = FALSE
    /\ noResult = FALSE
    /\ feed = <<>>
    /\ arrived = 0
    /\ unsaved = None
    /\ conns = [c \in Conns |-> ClosedConn]

\* main returns Err(cause), or the process is stopped: everything that
\* lives in the process is gone, the tasks of the runtime included
Exit(cause) ==
    /\ pc' = "exited"
    /\ exitCause' = cause
    /\ config' = None
    /\ offset' = None
    /\ batch' = <<>>
    /\ processed' = <<>>
    /\ chat_id' = None
    /\ state' = None
    /\ listener' = FALSE
    /\ conns' = [c \in Conns |-> ClosedConn]
    /\ unsaved' = IF pc \in {"resolved", "writing"} THEN chat_id ELSE unsaved

\* The operator starts the program
Start ==
    /\ pc = "exited"
    /\ pc' = "start"
    /\ reads' = 0
    /\ writes' = 0
    /\ exitCause' = "none"
    /\ hadChatId' = "unknown"
    /\ pollFailed' = FALSE
    /\ noResult' = FALSE
    /\ pollLog' = <<>>
    /\ UNCHANGED <<file, offset, batch, processed, mainVars, remoteVars, unsaved, conns>>

\* The process is stopped from outside (kill, power loss) at any point
Kill ==
    /\ pc # "exited"
    /\ Exit("killed")
    /\ UNCHANGED <<file, pollLog, reads, writes, hadChatId, pollFailed, noResult, remoteVars>>

\* A user sends something to the bot: Telegram queues an update
Arrive ==
    /\ arrived < MaxUpdates
    /\ \E f \in FeedSenders, c \in UpdateChats :
         feed' = Append(feed, Update(Some(FirstUpdateId + arrived), f, c))
    /\ arrived' = arrived + 1
    /\ UNCHANGED <<pc, file, resolverVars, mainVars, runVars, unsaved, conns>>

----------------------------------------------------------------------------
(* main, lines 215-238: load the config, resolve and persist the chat id   *)

\* load_config fails: main returns the error
LoadConfigFails ==
    /\ pc = "start"
    /\ ~file.valid
    /\ reads' = reads + 1
    /\ Exit("load_config")
    /\ UNCHANGED <<file, pollLog, writes, hadChatId, pollFailed, noResult, remoteVars>>

\* Mutant: the cached chat id is ignored and resolution runs all the same
LoadConfigCachedResolves ==
    /\ pc = "start"
    /\ file.valid
    /\ file.config.telegram_chat_id.some
    /\ reads' = reads + 1
    /\ config' = Some(file.config)
    /\ hadChatId' = "yes"
    /\ pc' = "poll"
    /\ UNCHANGED <<file, resolverVars, chat_id, state, listener, writes, exitCause,
                   pollFailed, noResult, remoteVars, unsaved, conns>>

\* load_config succeeds and the config holds a chat id: it is used as it is
LoadConfigCached ==
    /\ pc = "start"
    /\ file.valid
    /\ file.config.telegram_chat_id.some
    /\ reads' = reads + 1
    /\ config' = Some(file.config)
    /\ chat_id' = file.config.telegram_chat_id
    /\ hadChatId' = "yes"
    /\ pc' = "ready"
    /\ UNCHANGED <<file, resolverVars, state, listener, writes, exitCause, pollFailed, noResult,
                   remoteVars, unsaved, conns>>

\* Mutant: the listener is bound before the chat id is resolved
LoadConfigUnresolvedBindsFirst ==
    /\ pc = "start"
    /\ file.valid
    /\ ~file.config.telegram_chat_id.some
    /\ reads' = reads + 1
    /\ config' = Some(file.config)
    /\ offset' = None
    /\ hadChatId' = "no"
    /\ listener' = TRUE
    /\ pc' = "poll"
    /\ UNCHANGED <<file, batch, processed, pollLog, chat_id, state, writes,
                   exitCause, pollFailed, noResult, remoteVars, unsaved, conns>>

\* load_config succeeds and the config holds no chat id: resolve_chat_id is
\* entered, with offset = None
LoadConfigUnresolved ==
    /\ pc = "start"
    /\ file.valid
    /\ ~file.config.telegram_chat_id.some
    /\ reads' = reads + 1
    /\ config' = Some(file.config)
    /\ offset' = None
    /\ hadChatId' = "no"
    /\ pc' = "poll"
    /\ UNCHANGED <<file, batch, processed, pollLog, chat_id, state, listener, writes,
                   exitCause, pollFailed, noResult, remoteVars, unsaved, conns>>

\* Top of the loop: the getUpdates request is sent
SendPoll ==
    /\ pc = "poll"
    /\ Len(pollLog) < MaxPolls
    /\ pollLog' = Append(pollLog, PollParams(offset))
    /\ pc' = "wait"
    /\ noResult' = FALSE
    /\ UNCHANGED <<file, offset, batch, processed, mainVars, reads, writes, exitCause,
                   hadChatId, pollFailed, remoteVars, unsaved, conns>>

\* Mutant: a failed poll is retried instead of ending resolve_chat_id
PollFailsRetried ==
    /\ pc = "wait"
    /\ pollFailed' = TRUE
    /\ UNCHANGED noResult
    /\ pc' = "poll"
    /\ UNCHANGED <<file, resolverVars, mainVars, reads, writes, exitCause, hadChatId,
                   remoteVars, unsaved, conns>>

\* send() or json() fails: resolve_chat_id returns the error, and so does main
PollFails ==
    /\ pc = "wait"
    /\ pollFailed' = TRUE
    /\ UNCHANGED noResult
    /\ Exit("getUpdates")
    /\ UNCHANGED <<file, pollLog, reads, writes, hadChatId, remoteVars>>

\* Mutant: a body without a "result" array is taken for a failed poll
PollNoResultAborts ==
    /\ pc = "wait"
    /\ noResult' = TRUE
    /\ Exit("getUpdates")
    /\ UNCHANGED <<file, pollLog, reads, writes, hadChatId, pollFailed, remoteVars>>

\* The body is JSON without a "result" array: the loop goes round
PollNoResult ==
    /\ pc = "wait"
    /\ pc' = "poll"
    /\ noResult' = TRUE
    /\ UNCHANGED <<file, resolverVars, mainVars, reads, writes, exitCause, hadChatId,
                   pollFailed, remoteVars, unsaved, conns>>

\* Telegram answers the poll: it confirms the updates below the offset and
\* returns a prefix of the rest (an empty one when the wait window elapses)
PollReturns ==
    /\ pc = "wait"
    /\ LET left == Confirmed(feed, pollLog[Len(pollLog)])
       IN /\ feed' = left
          /\ \E b \in Prefixes(left) : batch' = b
    /\ pc' = "scan"
    /\ noResult' = FALSE
    /\ UNCHANGED <<file, offset, processed, pollLog, mainVars, reads, writes, exitCause,
                   hadChatId, pollFailed, arrived, unsaved, conns>>

\* A feed bound by nothing answers the poll with any array of updates
PollReturnsAny ==
    /\ pc = "wait"
    /\ \E b \in SeqsUpTo(AnyUpdates, MaxDelivered - Len(processed)) : batch' = b
    /\ pc' = "scan"
    /\ noResult' = FALSE
    /\ UNCHANGED <<file, offset, processed, pollLog, mainVars, reads, writes, exitCause,
                   hadChatId, pollFailed, remoteVars, unsaved, conns>>

\* Mutant: the resolver confirms the matching update to Telegram (one more
\* getUpdates with the new offset) before it returns
ScanUpdateConfirming ==
    /\ pc = "scan"
    /\ batch # <<>>
    /\ LET update == Head(batch)
           found == MatchOf(update, StripPrefixAt(config.val.telegram_username))
       IN /\ offset' = NextOffset(offset, update)
          /\ processed' = Append(processed, update)
          /\ batch' = Tail(batch)
          /\ IF found.some
             THEN /\ chat_id' = found
                  /\ pc' = "resolved"
                  /\ feed' = Confirmed(feed, NextOffset(offset, update))
             ELSE UNCHANGED <<chat_id, pc, feed>>
    /\ UNCHANGED <<file, pollLog, config, state, listener, runVars, arrived,
                   unsaved, conns>>

\* One iteration of `for update in updates`
ScanUpdate ==
    /\ pc = "scan"
    /\ batch # <<>>
    /\ LET update == Head(batch)
           found == MatchOf(update, StripPrefixAt(config.val.telegram_username))
       IN /\ offset' = NextOffset(offset, update)
          /\ processed' = Append(processed, update)
          /\ batch' = Tail(batch)
          /\ IF found.some
             THEN /\ chat_id' = found
                  /\ pc' = "resolved"
             ELSE UNCHANGED <<chat_id, pc>>
    /\ UNCHANGED <<file, pollLog, config, state, listener, runVars, remoteVars,
                   unsaved, conns>>

\* Mutant: the resolver gives up with an error after an array without a
\* match
ScanDoneGivesUp ==
    /\ pc = "scan"
    /\ batch = <<>>
    /\ Exit("no match")
    /\ UNCHANGED <<file, pollLog, reads, writes, hadChatId, pollFailed, noResult, remoteVars>>

\* The for-loop is through the array: back to the top of the loop
ScanDone ==
    /\ pc = "scan"
    /\ batch = <<>>
    /\ pc' = "poll"
    /\ UNCHANGED <<file, resolverVars, mainVars, runVars, remoteVars, unsaved, conns>>

\* save_config, first half of std::fs::write: the file is opened for
\* writing, which empties it.  config.telegram_chat_id is already Some(id).
SaveConfigOpen ==
    /\ pc = "resolved"
    /\ config' = Some([config.val EXCEPT !.telegram_chat_id = chat_id])
    /\ file' = Unparsable
    /\ writes' = writes + 1
    /\ pc' = "writing"
    /\ UNCHANGED <<resolverVars, chat_id, state, listener, reads, exitCause, hadChatId,
                   pollFailed, noResult, remoteVars, unsaved, conns>>

\* save_config, second half: the serialized config is in the file.  The
\* locals of resolve_chat_id, kept until here as it left them, are dropped.
SaveConfigWritten ==
    /\ pc = "writing"
    /\ file' = FileOf(config.val)
    /\ pc' = "ready"
    /\ offset' = None
    /\ batch' = <<>>
    /\ processed' = <<>>
    /\ unsaved' = None
    /\ UNCHANGED <<pollLog, mainVars, runVars, remoteVars, conns>>

\* save_config fails, main returns the error: the file could not be opened
\* and is as it was
SaveConfigOpenFails ==
    /\ pc = "resolved"
    /\ writes' = writes + 1
    /\ Exit("save_config")
    /\ UNCHANGED <<file, pollLog, reads, hadChatId, pollFailed, noResult, remoteVars>>

\* Mutant: the error of save_config is dropped and main goes on
SaveConfigWriteFailsIgnored ==
    /\ pc = "writing"
    /\ pc' = "ready"
    /\ UNCHANGED <<file, resolverVars, mainVars, runVars, remoteVars, unsaved, conns>>

\* save_config fails, main returns the error: the file could not be written
\* in full and is left cut short
SaveConfigWriteFails ==
    /\ pc = "writing"
    /\ Exit("save_config")
    /\ UNCHANGED <<file, pollLog, reads, writes, hadChatId, pollFailed, noResult, remoteVars>>

\* Lines 240-247, failing: AppState is built, then the listen address does
\* not parse or cannot be bound; main returns the error
BindFails ==
    /\ pc = "ready"
    /\ Exit(IF config.val.listen_addr = "nowhere" THEN "listen_addr" ELSE "bind")
    /\ UNCHANGED <<file, pollLog, reads, writes, hadChatId, pollFailed, noResult, remoteVars>>

\* Lines 240-247: AppState is built from the chat id, the address parses
\* and the listener is bound
Bind ==
    /\ pc = "ready"
    /\ config.val.listen_addr # "nowhere"
    /\ state' = Some([chat_id |-> chat_id.val])
    /\ listener' = TRUE
    /\ pc' = "serving"
    /\ UNCHANGED <<file, resolverVars, config, chat_id, runVars, remoteVars, unsaved,
                   conns>>

----------------------------------------------------------------------------
(* main, lines 250-265, and handle_request: the accept loop and one task   *)
(* per connection.  A slot's record keeps the last request and what became *)
(* of it until the next request on that connection.                        *)

servingFrame == <<pc, file, resolverVars, mainVars, runVars, remoteVars, unsaved>>

\* listener.accept() fails: main returns the error
AcceptFails ==
    /\ pc = "serving"
    /\ Exit("accept")
    /\ UNCHANGED <<file, pollLog, reads, writes, hadChatId, pollFailed, noResult, remoteVars>>

\* listener.accept() returns a stream and a task is spawned for it
Accept(c) ==
    /\ pc = "serving"
    /\ conns[c].st \in {"closed", "failed"}
    /\ conns' = [conns EXCEPT ![c] = IdleConn]
    /\ UNCHANGED servingFrame

\* The peer closes a connection that has no request in progress
Close(c) ==
    /\ pc = "serving"
    /\ conns[c].st \in {"idle", "done"}
    /\ conns' = [conns EXCEPT ![c] = ClosedConn]
    /\ UNCHANGED servingFrame

\* handle_request is called with a POST / request and runs up to
\* req.collect().await
RecvSend(c, req) ==
    /\ pc = "serving"
    /\ conns[c].st \in {"idle", "done"}
    /\ Route(req) = "send"
    /\ conns' = [conns EXCEPT ![c] = [IdleConn EXCEPT !.st = "body", !.req = Some(req)]]
    /\ UNCHANGED servingFrame

\* handle_request is called with GET /health and returns
RecvHealth(c, req) ==
    /\ pc = "serving"
    /\ conns[c].st \in {"idle", "done"}
    /\ Route(req) = "health"
    /\ conns' = [conns EXCEPT ![c] =
                   [IdleConn EXCEPT !.st = "done", !.req = Some(req),
                                    !.resp = Some(Response(200, "status", <<"ok">>))]]
    /\ UNCHANGED servingFrame

\* handle_request is called with any other method and path and returns
RecvOther(c, req) ==
    /\ pc = "serving"
    /\ conns[c].st \in {"idle", "done"}
    /\ Route(req) = "not_found"
    /\ conns' = [conns EXCEPT ![c] =
                   [IdleConn EXCEPT !.st = "done", !.req = Some(req),
                                    !.resp = Some(Response(404, "error", <<"not found">>))]]
    /\ UNCHANGED servingFrame

\* req.collect() fails: handle_request returns Err
BodyFails(c) ==
    /\ pc = "serving"
    /\ conns[c].st = "body"
    /\ conns' = [conns EXCEPT ![c].st = "failed", ![c].err = "collect"]
    /\ UNCHANGED servingFrame

\* The body is there and is refused: handle_request returns a 400 response
RejectBody(c) ==
    /\ pc = "serving"
    /\ conns[c].st = "body"
    /\ LET n == Normalize(conns[c].req.val)
       IN /\ n.kind = "response"
          /\ conns' = [conns EXCEPT ![c].st = "done", ![c].resp = Some(n.response)]
    /\ UNCHANGED servingFrame

\* The body is there and is no UTF-8: handle_request returns Err
BodyNotUtf8(c) ==
    /\ pc = "serving"
    /\ conns[c].st = "body"
    /\ Normalize(conns[c].req.val).kind = "err"
    /\ conns' = [conns EXCEPT ![c].st = "failed", ![c].err = "from_utf8"]
    /\ UNCHANGED servingFrame

\* The body is there and gives a message: send_telegram_message posts it
\* and awaits the answer
Forward(c) ==
    /\ pc = "serving"
    /\ conns[c].st = "body"
    /\ LET n == Normalize(conns[c].req.val)
       IN /\ n.kind = "message"
          /\ conns' = [conns EXCEPT
               ![c].st = "send",
               ![c].calls = conns[c].calls + 1,
               ![c].out = Some(OutboundMessage(state.val, n.message,
                                               ParseMode(conns[c].req.val)))]
    /\ UNCHANGED servingFrame

\* Telegram answers 2xx: handle_request returns 200
SendOk(c) ==
    /\ pc = "serving"
    /\ conns[c].st = "send"
    /\ conns' = [conns EXCEPT ![c].st = "done",
                              ![c].answer = Some([kind |-> "2xx"]),
                              ![c].resp = Some(Response(200, "status", <<"sent">>))]
    /\ UNCHANGED servingFrame

\* Mutant: a handler whose call Telegram refused resets the shared chat id
SendRejectedResetsChat(c, failure) ==
    /\ pc = "serving"
    /\ conns[c].st = "send"
    /\ state' = Some([chat_id |-> 0])
    /\ conns' = [conns EXCEPT
         ![c].st = "done",
         ![c].answer = Some([kind |-> "status", status |-> failure.status,
                              body |-> failure.body]),
         ![c].resp = Some(Response(502, "error",
                        <<"telegram send failed", "Telegram API error",
                          failure.status, failure.body>>))]
    /\ UNCHANGED <<pc, file, resolverVars, config, chat_id, listener, runVars,
                   remoteVars, unsaved>>

\* Telegram answers another status: handle_request returns 502 with the
\* status and the body text
SendRejected(c, failure) ==
    /\ pc = "serving"
    /\ conns[c].st = "send"
    /\ conns' = [conns EXCEPT
         ![c].st = "done",
         ![c].answer = Some([kind |-> "status", status |-> failure.status,
                              body |-> failure.body]),
         ![c].resp = Some(Response(502, "error",
                        <<"telegram send failed", "Telegram API error",
                          failure.status, failure.body>>))]
    /\ UNCHANGED servingFrame

\* Mutant: a call that failed in transport is posted again
SendTransportFailsRetried(c) ==
    /\ pc = "serving"
    /\ conns[c].st = "send"
    /\ conns[c].calls < 2
    /\ conns' = [conns EXCEPT ![c].calls = conns[c].calls + 1]
    /\ UNCHANGED servingFrame

\* The call fails in transport: handle_request returns 502 with the cause
SendTransportFails(c) ==
    /\ pc = "serving"
    /\ conns[c].st = "send"
    /\ conns' = [conns EXCEPT
         ![c].st = "done",
         ![c].answer = Some([kind |-> "transport"]),
         ![c].resp = Some(Response(502, "error",
                        <<"telegram send failed", "error sending request">>))]
    /\ UNCHANGED servingFrame

\* What a connection task does, for the connections cs and the requests rs
Serving(cs, rs) ==
    \/ AcceptFails
    \/ \E c \in cs : Accept(c)
    \/ \E c \in cs : Close(c)
    \/ \E c \in cs, req \in rs : RecvSend(c, req)
    \/ \E c \in cs, req \in rs : RecvHealth(c, req)
    \/ \E c \in cs, req \in rs : RecvOther(c, req)
    \/ \E c \in cs : BodyFails(c)
    \/ \E c \in cs : RejectBody(c)
    \/ \E c \in cs : BodyNotUtf8(c)
    \/ \E c \in cs : Forward(c)
    \/ \E c \in cs : SendOk(c)
    \/ \E c \in cs, failure \in SendFailures : SendRejected(c, failure)
    \/ \E c \in cs : SendTransportFails(c)

----------------------------------------------------------------------------
(* Specifications *)

Startup ==
    \/ Start
    \/ Kill
    \/ LoadConfigFails
    \/ LoadConfigCached
    \/ LoadConfigUnresolved
    \/ SendPoll
    \/ PollFails
    \/ PollNoResult
    \/ ScanUpdate
    \/ ScanDone
    \/ SaveConfigOpen
    \/ SaveConfigWritten
    \/ SaveConfigOpenFails
    \/ SaveConfigWriteFails
    \/ BindFails
    \/ Bind

\* The whole program against Telegram's feed, served on one connection
Next ==
    \/ Startup
    \/ Arrive
    \/ PollReturns
    \/ Serving({1}, ProbeRequests)

Init == InitWith(Configs)

Spec == Init /\ [][Next]_vars

\* The whole program against a feed bound by nothing
InitAnyFeed == InitWith(AnyFeedConfigs)

NextAnyFeed ==
    \/ Startup
    \/ PollReturnsAny
    \/ Serving({1}, ProbeRequests)

SpecAnyFeed == InitAnyFeed /\ [][NextAnyFeed]_vars

\* The program left to run against Telegram's feed: nobody stops the
\* process and no connection arrives.  main is one sequential future
\* that the runtime drives whenever it is not awaiting the network, so the
\* steps of resolve_chat_id that wait for nothing are taken.
NextLive ==
    \/ Start
    \/ LoadConfigFails
    \/ LoadConfigCached
    \/ LoadConfigUnresolved
    \/ SendPoll
    \/ PollFails
    \/ PollNoResult
    \/ PollReturns
    \/ Arrive
    \/ ScanUpdate
    \/ ScanDone
    \/ SaveConfigOpen
    \/ SaveConfigWritten
    \/ SaveConfigOpenFails
    \/ SaveConfigWriteFails
    \/ BindFails
    \/ Bind
    \/ AcceptFails

InitLive == InitWith(LiveConfigs)

SpecLive ==
    /\ InitLive
    /\ [][NextLive]_vars
    /\ WF_vars(SendPoll)
    /\ WF_vars(ScanUpdate)
    /\ WF_vars(ScanDone)

\* The relay once main has bound the listener, with a chat id from the
\* config file: every request on one connection, while a second connection
\* is served at the same time
InitServe ==
    /\ pc = "serving"
    /\ \E id \in ChatIds \cup {CachedChatId} :
         LET c == [listen_addr |-> "127.0.0.1:8080", telegram_username |-> <<"a">>,
                   telegram_chat_id |-> Some(id)]
         IN
         /\ file = FileOf(c)
         /\ config = Some(c)
         /\ chat_id = c.telegram_chat_id
         /\ state = Some([chat_id |-> c.telegram_chat_id.val])
    /\ offset = None
    /\ batch = <<>>
    /\ processed = <<>>
    /\ pollLog = <<>>
    /\ listener = TRUE
    /\ reads = 1
    /\ writes = 0
    /\ exitCause = "none"
    /\ hadChatId = "yes"
    /\ pollFailed = FALSE
    /\ noResult = FALSE
    /\ feed = <<>>
    /\ arrived = 0
    /\ unsaved = None
    /\ conns = [c \in Conns |-> ClosedConn]

NextServe ==
    \/ Serving({1}, Requests)
    \/ Serving({2}, ProbeRequests)

SpecServe == InitServe /\ [][NextServe]_vars

----------------------------------------------------------------------------
(* Claims *)

Resolving == pc \in {"poll", "wait", "scan"}

\* C1: resolution has run to completion before the listener is bound: the
\* listener is bound only from the state after resolution, with the chat id
\* in hand; once it is bound no poll is sent; and while resolution is in
\* progress no connection is accepted and no request handled.
C1_ResolutionBeforeBind ==
    /\ [](listener => pc = "serving")
    /\ [](Resolving => ~listener /\ \A c \in Conns : conns[c].st = "closed")
    /\ [][(~listener /\ listener') => (pc = "ready" /\ chat_id.some)]_vars
    /\ [][listener => pollLog' = pollLog]_vars

\* C1 witness: a request is handled in a run that polled twice to resolve
C1_Witness ==
    /\ listener
    /\ Len(pollLog) >= 2
    /\ conns[1].st = "send"

\* C2: while a request is handled (and whenever the listener is bound) the
\* chat id of the application state is the telegram_chat_id in the config
\* file, and so is the chat id of every outbound message; a run in which
\* save_config fails ends without binding the listener or sending a message.
C2_SavedBeforeServed ==
    /\ [](listener \/ (\E c \in Conns : conns[c].st \in {"body", "send", "done"})
            => /\ state.some
               /\ file.valid
               /\ file.config.telegram_chat_id = Some(state.val.chat_id))
    /\ [](\A c \in Conns : conns[c].out.some
            => file.valid /\ file.config.telegram_chat_id = Some(conns[c].out.val.chat_id))
    /\ [][(exitCause' = "save_config" /\ exitCause = "none")
            => /\ pc' = "exited"
               /\ ~listener /\ ~listener'
               /\ \A c \in Conns : conns[c].calls = 0 /\ conns'[c].calls = 0]_vars
    /\ [](exitCause = "save_config" => pc = "exited")

\* C2 witness: a message goes out under a chat id resolved and saved in
\* this run
C2_Witness ==
    /\ writes = 1
    /\ conns[1].st = "send"
    /\ conns[1].out.some
    /\ conns[1].out.val.chat_id \in ChatIds

\* C3: load_config runs once per run and the file is written at most once;
\* with a chat id in the loaded config no poll is sent and nothing is
\* written; without one, the file is written once, right after resolution,
\* before the listener is bound, and never while serving.
C3_ConfigReadOnceWrittenOnce ==
    /\ [](reads <= 1 /\ writes <= 1)
    /\ [](hadChatId = "yes" => pollLog = <<>> /\ writes = 0)
    /\ [](hadChatId = "no" /\ pc \in {"ready", "serving"} => writes = 1)
    /\ [][file' # file => pc \in {"resolved", "writing"} /\ hadChatId = "no"]_vars
    /\ [][writes' > writes => pc = "resolved" /\ chat_id.some]_vars

\* C3 witness: a request has been answered in a run that wrote the file
C3_Witness ==
    /\ pc = "serving"
    /\ hadChatId = "no"
    /\ writes = 1
    /\ conns[1].st = "done"

\* C9: a failed poll ends resolution and the run: no later poll is sent, no
\* chat id is returned, the config file is as it was (without a chat id),
\* and the listener is never bound.
C9_PollErrorAborts ==
    /\ [](pollFailed => /\ pc = "exited"
                        /\ exitCause = "getUpdates"
                        /\ ~listener
                        /\ ~chat_id.some
                        /\ writes = 0
                        /\ file.valid /\ ~file.config.telegram_chat_id.some)
    /\ [][pollFailed' /\ ~pollFailed => file' = file /\ pollLog' = pollLog]_vars
    /\ [][pollFailed /\ pollFailed' => pollLog' = pollLog /\ file' = file]_vars

\* C9 witness: the second poll of a run has failed
C9_Witness ==
    /\ pollFailed
    /\ Len(pollLog) = 2
    /\ pollLog[2].some

\* What the resolver has been delivered in this run, in delivery order
Delivered == processed \o batch

\* The resolver's frame is there: it runs, or it has returned and main has
\* not yet finished save_config
ResolverFrame == pc \in {"poll", "wait", "scan", "resolved", "writing"}

\* C4 as claimed: after a stop between the return of resolve_chat_id and the
\* completion of save_config the file still parses and has no chat id, so
\* that the next start resolves again, and that resolution returns the same
\* chat id.
C4_Original ==
    /\ (unsaved.some /\ pc \in {"exited", "start"})
         => (file.valid /\ ~file.config.telegram_chat_id.some)
    /\ (unsaved.some /\ pc = "resolved") => chat_id = unsaved

\* C4 as amended: a stop after resolve_chat_id has returned and before
\* save_config has opened the file leaves the file as it was, without a
\* chat id; from such a file the next start goes into resolution; and
\* whenever a later run's resolution returns, it returns the chat id the
\* earlier run had resolved and not saved.  A stop while save_config writes
\* leaves an unparsable file rather than a chat id.
C4_StopBeforeSaveRepeatsResolution ==
    /\ [][(pc = "resolved" /\ pc' = "exited")
            => /\ file' = file
               /\ file.valid /\ ~file.config.telegram_chat_id.some
               /\ unsaved' = chat_id]_vars
    /\ [][(pc = "writing" /\ pc' = "exited") => (~file'.valid /\ unsaved' = chat_id)]_vars
    /\ [](unsaved.some /\ file.valid => ~file.config.telegram_chat_id.some)
    /\ [][(unsaved.some /\ file.valid /\ reads' = reads + 1) => pc' = "poll"]_vars
    /\ []((unsaved.some /\ pc = "resolved") => chat_id = unsaved)

\* C4 witness: a second resolution has returned after an earlier run
\* resolved a chat id, stopped before saving it, and more updates came
C4_Witness ==
    /\ pc = "resolved"
    /\ unsaved.some
    /\ file.valid
    /\ Len(feed) = 2
    /\ Len(processed) = 1

\* Ids of the updates in q that carry one, in order
RECURSIVE IdsOf(_)
IdsOf(q) ==
    IF q = <<>> THEN <<>>
    ELSE IF Head(q).update_id.some THEN <<Head(q).update_id.val>> \o IdsOf(Tail(q))
    ELSE IdsOf(Tail(q))

NonDecreasing(ids) == \A i \in 1..(Len(ids) - 1) : ids[i] <= ids[i + 1]

\* The cursor is what the claim says of the updates processed so far: unset
\* before the first update with an id, the last such id + 1 afterwards
CursorFollowsProcessed ==
    ResolverFrame =>
        LET ids == IdsOf(processed)
        IN IF ids = <<>> THEN ~offset.some ELSE offset = Some(ids[Len(ids)] + 1)

CursorNeverDecreases ==
    (ResolverFrame /\ offset.some /\ pc' # "exited" /\ pc' # "ready")
        => (offset'.some /\ offset'.val >= offset.val)

\* C5 as claimed: unset until the first update is processed, k + 1 after
\* processing an update with id k, and never decreasing, whatever batches
\* the feed returns.
C5_Original ==
    /\ []CursorFollowsProcessed
    /\ [][CursorNeverDecreases]_vars

\* C5 as amended: unset until the first update is processed, k + 1 after
\* processing an update with id k, and never decreasing as long as the
\* update ids arrive in non-decreasing order.
C5_CursorMonotoneOnOrderedIds ==
    /\ []CursorFollowsProcessed
    /\ [][NonDecreasing(IdsOf(processed')) => CursorNeverDecreases]_vars

\* C5 witness: the cursor has moved from 6 to 7 over two polls
C5_Witness ==
    /\ pc = "scan"
    /\ Len(pollLog) = 2
    /\ pollLog[2] = Some(FirstUpdateId + 1)
    /\ IdsOf(processed) = <<FirstUpdateId, FirstUpdateId + 1>>
    /\ offset = Some(FirstUpdateId + 2)

MatchingPairs ==
    { <<cfg, snd>> : cfg \in { <<"@", "A">>, <<"a">>, <<"A">> },
                     snd \in { <<"a">>, <<"A">> } }
    \cup { <<<<"@", "@", "a">>, <<"@", "a">>>> }

SenderMatches(update) ==
    /\ update.from.some
    /\ <<config.val.telegram_username, update.from.val>> \in MatchingPairs

\* Index of the first update of q that satisfies P, 0 when there is none
FirstIndex(q, P(_)) ==
    IF \E i \in 1..Len(q) : P(q[i])
    THEN CHOOSE i \in 1..Len(q) : P(q[i]) /\ \A j \in 1..(i - 1) : ~P(q[j])
    ELSE 0

ReturnedAt(n) ==
    /\ n > 0
    /\ processed = SubSeq(Delivered, 1, n)
    /\ chat_id = processed[n].chat
    /\ offset = Some(processed[n].update_id.val + 1)
    /\ PollParams(offset) = Some(processed[n].update_id.val + 1)

\* C7 as claimed: resolve_chat_id returns at the first delivered update
\* whose sender matches, with its chat id, having processed the updates up
\* to it and no more, the cursor at its id + 1.
C7_Original ==
    pc = "resolved" => ReturnedAt(FirstIndex(Delivered, SenderMatches))

HasChatAndSenderMatches(update) == SenderMatches(update) /\ update.chat.some

\* C7 as amended: resolve_chat_id returns at the first delivered update
\* whose sender matches and which carries an integer chat id, with that
\* chat id, having processed the updates up to it and no more, the cursor
\* at its id + 1; and it has not returned while no such update is processed.
C7_ReturnsFirstMatchWithChatId ==
    /\ pc = "resolved" => ReturnedAt(FirstIndex(Delivered, HasChatAndSenderMatches))
    /\ pc \in {"poll", "wait", "scan"}
         => FirstIndex(processed, HasChatAndSenderMatches) = 0

\* C7 witness: the resolver has returned at the first update of a batch of
\* two, both matching, and has left the second alone
C7_Witness ==
    /\ pc = "resolved"
    /\ Len(processed) = 1
    /\ Len(batch) = 1
    /\ HasChatAndSenderMatches(batch[1])
    /\ batch[1].chat # chat_id

\* C8: of the updates with a chat id, the resolver returns at exactly those
\* whose sender matches the configured username in the claim's sense.
C8_UsernameMatching ==
    ResolverFrame =>
        \A i \in 1..Len(processed) :
            processed[i].chat.some =>
                (SenderMatches(processed[i])
                    <=> (i = Len(processed) /\ pc \in {"resolved", "writing"}))

\* C8 witness: configured "@A", an update from "b" passed over, then the
\* resolver returned at an update from "a"
C8_Witness ==
    /\ pc = "resolved"
    /\ config.val.telegram_username = <<"@", "A">>
    /\ Len(processed) = 2
    /\ processed[1].from = Some(<<"b">>)
    /\ processed[1].chat.some
    /\ processed[2].from = Some(<<"a">>)

\* The content types and bodies the claim is about
JsonContentTypes ==
    { Some(Visible(ApplicationJson)), Some(Visible(ApplicationJson \o <<";", "q">>)) }
DeserializableBodies ==
    { "{\"message\":\"hi\"}", "{\"message\":\"\"}", "{\"message\":\"a\\nb\",\"x\":1}" }

RejectedAsClientInput(req) ==
    /\ req.method = "POST" /\ req.path = "/"
    /\ \/ req.content_type \in JsonContentTypes /\ req.body \notin DeserializableBodies
       \/ req.body = EmptyBody

\* C10: a POST / whose body is refused as client input (no {message: string}
\* under a JSON content type, or an empty body) gets a 400 with an error
\* envelope and no call of the remote client.
C10_RejectedBodyNeverSent ==
    \A c \in Conns :
        (conns[c].req.some /\ RejectedAsClientInput(conns[c].req.val))
            => /\ conns[c].st \in {"body", "done", "failed"}
               /\ conns[c].calls = 0
               /\ ~conns[c].out.some
               /\ conns[c].st = "done"
                    => /\ conns[c].resp.val.status = 400
                       /\ conns[c].resp.val.key = "error"
               /\ conns[c].st = "failed" => ~conns[c].resp.some

\* C10 witness: a JSON request without the message field has its 400
C10_Witness ==
    /\ conns[1].st = "done"
    /\ conns[1].req.val.content_type = Some(Visible(ApplicationJson))
    /\ conns[1].req.val.body = "{\"msg\":\"hi\"}"
    /\ conns[1].resp.val.status = 400

\* A POST / without a JSON content type whose body is no UTF-8, once the
\* body has been read
InvalidUtf8Text(c) ==
    /\ conns[c].req.some
    /\ conns[c].req.val.method = "POST" /\ conns[c].req.val.path = "/"
    /\ conns[c].req.val.content_type \notin JsonContentTypes
    /\ conns[c].req.val.body = BadUtf8
    /\ conns[c].st # "body"
    /\ conns[c].err # "collect"

\* C11: a POST / without a JSON content type whose body is not valid UTF-8
\* is answered 400 with an error envelope, the remote client is not called,
\* and the connection goes on serving (its task has not ended in an error).
C11_InvalidUtf8IsClientError ==
    \A c \in Conns :
        InvalidUtf8Text(c)
            => /\ conns[c].st = "done"
               /\ conns[c].resp.some
               /\ conns[c].resp.val.status = 400
               /\ conns[c].resp.val.key = "error"
               /\ conns[c].calls = 0

\* C11, what the code does instead: no response, no call, and the
\* connection's task ends with the error
C11_InvalidUtf8EndsConnection ==
    \A c \in Conns :
        InvalidUtf8Text(c)
            => /\ conns[c].st = "failed"
               /\ conns[c].err = "from_utf8"
               /\ ~conns[c].resp.some
               /\ conns[c].calls = 0

C11_Witness ==
    /\ InvalidUtf8Text(1)
    /\ conns[1].req.val.content_type = Some(Visible(<<"t", "e", "x", "t">>))
    /\ conns[2].st = "send"

\* A POST / whose body gives a message to forward
NormalizesToMessage(c) ==
    /\ conns[c].req.some
    /\ Route(conns[c].req.val) = "send"
    /\ Normalize(conns[c].req.val).kind = "message"

\* C12: a POST / that normalizes gets one remote call and never a second;
\* its response is 200 {status: sent} exactly when that call was answered
\* 2xx, and 502 with the remote error detail exactly when it failed.
C12_OneCallOneOutcome ==
    /\ [](\A c \in Conns : NormalizesToMessage(c) =>
            /\ conns[c].st \in {"body", "send", "done", "failed"}
            /\ conns[c].st = "body" => conns[c].calls = 0 /\ ~conns[c].answer.some
            /\ conns[c].st = "send"
                 => conns[c].calls = 1 /\ ~conns[c].answer.some /\ ~conns[c].resp.some
            /\ conns[c].st = "failed" => conns[c].calls = 0 /\ conns[c].err = "collect"
            /\ conns[c].st = "done" =>
                 /\ conns[c].calls = 1
                 /\ conns[c].answer.some
                 /\ conns[c].resp.val.status \in {200, 502}
                 /\ conns[c].resp.val.status = 200
                      <=> conns[c].answer.val.kind = "2xx"
                 /\ conns[c].resp.val.status = 200
                      => conns[c].resp.val = Response(200, "status", <<"sent">>)
                 /\ conns[c].resp.val.status = 502
                      => /\ conns[c].resp.val.key = "error"
                         /\ conns[c].resp.val.text[1] = "telegram send failed"
                 /\ conns[c].answer.val.kind = "status"
                      => /\ conns[c].resp.val.text[3] = conns[c].answer.val.status
                         /\ conns[c].resp.val.text[4] = conns[c].answer.val.body)
    /\ [][\A c \in Conns : conns'[c].calls > conns[c].calls
            => /\ conns[c].st = "body"
               /\ conns'[c].calls = 1
               /\ NormalizesToMessage(c)]_vars

\* C12 witness: Telegram refused the one call with 400, the caller has 502
C12_Witness ==
    /\ conns[1].st = "done"
    /\ conns[1].calls = 1
    /\ conns[1].answer = Some([kind |-> "status", status |-> 400, body |-> "chat not found"])
    /\ conns[1].resp.val.status = 502

\* The JSON bodies {"message": s} of the request domain, with their s
MessageOf ==
    [b \in DeserializableBodies |->
        CASE b = "{\"message\":\"hi\"}" -> "hi"
          [] b = "{\"message\":\"\"}" -> ""
          [] OTHER -> "a<LF>b"]

\* The bodies that are text as they stand
Utf8Bodies == Bodies \ {BadUtf8}

\* The text the claim has forwarded for a request, None when the claim has
\* the request refused
ExpectedText(req) ==
    IF req.content_type \in JsonContentTypes
    THEN IF req.body \in DeserializableBodies THEN Some(MessageOf[req.body]) ELSE None
    ELSE IF req.body \in Utf8Bodies /\ req.body # EmptyBody THEN Some(req.body) ELSE None

\* C13: the text of the outbound message is the input unchanged: s for a
\* JSON body {"message": s} under a JSON content type, the empty s included,
\* and the body as it stands for every other accepted request; and every
\* such request is forwarded.
C13_TextForwardedUnchanged ==
    \A c \in Conns :
        (conns[c].req.some /\ Route(conns[c].req.val) = "send")
            => LET expected == ExpectedText(conns[c].req.val)
               IN /\ conns[c].out.some
                       => expected.some /\ conns[c].out.val.text = expected.val
                  /\ (expected.some /\ conns[c].st \in {"send", "done"})
                       => conns[c].out.some

\* C13 witness: the empty message of a JSON body has been sent as it is
C13_Witness ==
    /\ conns[1].st = "done"
    /\ conns[1].req.val.body = "{\"message\":\"\"}"
    /\ conns[1].req.val.content_type = Some(Visible(ApplicationJson \o <<";", "q">>))
    /\ conns[1].out.some
    /\ conns[1].out.val.text = ""
    /\ conns[1].resp.val.status = 200

\* The header values the claim reads as "markdown" and as "html"
MarkdownHeaders ==
    { Some(Visible(Markdown)), Some(Visible(<<"M", "a", "r", "k", "D", "O", "W", "N">>)) }
HtmlHeaders == { Some(Visible(Html)), Some(Visible(<<"H", "T", "M", "L">>)) }

ExpectedTag(header) ==
    IF header \in MarkdownHeaders THEN Some("MarkdownV2")
    ELSE IF header \in HtmlHeaders THEN Some("HTML")
    ELSE None

\* C14: the parse_mode of an outbound message depends on the
\* telegram-parse-mode header alone: MarkdownV2 for "markdown" and HTML for
\* "html" in any letter case, no parse_mode for any other value and for an
\* absent header, whatever the content type and the body.
C14_ParseModeFromHeaderAlone ==
    \A c \in Conns :
        conns[c].out.some
            => conns[c].out.val.parse_mode = ExpectedTag(conns[c].req.val.parse_mode)

\* C14 witness: "MarkDOWN" on a text request has gone out as MarkdownV2
C14_Witness ==
    /\ conns[1].st = "send"
    /\ conns[1].req.val.parse_mode = Some(Visible(<<"M", "a", "r", "k", "D", "O", "W", "N">>))
    /\ conns[1].req.val.content_type = None
    /\ conns[1].out.val.parse_mode = Some("MarkdownV2")

\* C15: a request that is not POST / has its response at once, with no
\* remote call: 200 {status: ok} for GET /health, 404 {error: not found}
\* for every other method and path, whatever its headers and body and
\* whatever happens on the other connection.
C15_OtherRoutesNeverSend ==
    \A c \in Conns :
        LET req == conns[c].req.val
        IN (conns[c].req.some /\ ~(req.method = "POST" /\ req.path = "/"))
            => /\ conns[c].st = "done"
               /\ conns[c].calls = 0
               /\ ~conns[c].out.some
               /\ conns[c].resp =
                    IF req.method = "GET" /\ req.path = "/health"
                    THEN Some(Response(200, "status", <<"ok">>))
                    ELSE Some(Response(404, "error", <<"not found">>))

\* C15 witness: GET /health is answered ok on one connection right after
\* a remote call has failed on the other
C15_Witness ==
    /\ conns[1].req.some
    /\ conns[1].req.val.method = "GET"
    /\ conns[1].req.val.path = "/health"
    /\ conns[1].resp.val.status = 200
    /\ conns[2].st = "done"
    /\ conns[2].resp.val.status = 502

\* C16: while the process serves, the application state stays what it was
\* when it was built; every outbound message carries its chat id; and a
\* step of one connection's handler changes that connection's slot and
\* nothing another handler reads.
C16_StateNeverChanges ==
    /\ [][(state.some /\ pc' = "serving") => state' = state]_vars
    /\ [](\A c \in Conns : conns[c].out.some
            => state.some /\ conns[c].out.val.chat_id = state.val.chat_id)
    /\ [][\A c \in Conns : (conns'[c] # conns[c] /\ pc' = "serving")
            => /\ \A d \in Conns \ {c} : conns'[d] = conns[d]
               /\ UNCHANGED <<state, config, chat_id, file, listener>>]_vars

\* C16 witness: two requests are in flight at once, both with the chat id
\* of the state
C16_Witness ==
    /\ conns[1].st = "send"
    /\ conns[2].st = "send"
    /\ conns[1].out.val.chat_id = state.val.chat_id
    /\ conns[2].out.val.chat_id = state.val.chat_id
    /\ conns[1].out.val.text # conns[2].out.val.text

\* A POST / whose handling has ended, for another cause than a body that
\* could not be read off the connection
HandledSend(c) ==
    /\ conns[c].req.some
    /\ Route(conns[c].req.val) = "send"
    /\ conns[c].st \in {"done", "failed"}
    /\ conns[c].err # "collect"

\* C17: a client-input error or a remote delivery failure ends in an HTTP
\* response on its connection; the step that ends it leaves the process
\* serving, the listener bound and the other connection's request as it was.
C17_RequestErrorsContained ==
    /\ [](\A c \in Conns : HandledSend(c)
            => /\ conns[c].st = "done"
               /\ conns[c].resp.some
               /\ conns[c].resp.val.status \in {200, 400, 502})
    /\ [][\A c \in Conns : (conns[c].st \in {"body", "send"} /\ HandledSend(c)')
            => /\ pc' = "serving"
               /\ listener'
               /\ \A d \in Conns \ {c} : conns'[d] = conns[d]]_vars

\* C17, the part the code keeps: whatever ends the handling of a request,
\* the process goes on serving and the other connection is left alone; an
\* error is a 400 or 502 response unless the body is no UTF-8 text
C17_ProcessAndOthersUntouched ==
    /\ [](\A c \in Conns : HandledSend(c)
            => \/ conns[c].st = "done" /\ conns[c].resp.val.status \in {200, 400, 502}
               \/ conns[c].st = "failed" /\ conns[c].err = "from_utf8")
    /\ [][\A c \in Conns : (conns[c].st \in {"body", "send"} /\ HandledSend(c)')
            => /\ pc' = "serving"
               /\ listener'
               /\ \A d \in Conns \ {c} : conns'[d] = conns[d]]_vars

\* The array of the poll response holds an update not yet looked at whose
\* sender matches and that has an integer chat id
MatchDelivered ==
    /\ pc = "scan"
    /\ \E i \in 1..Len(batch) : HasChatAndSenderMatches(batch[i])

\* C18: the resolver leaves its loop only by returning at an update that
\* matches and has a chat id, or by the error of a poll; an array without a
\* match sends it back to polling; and once a poll has delivered a matching
\* update with an integer chat id, the resolver returns.
C18_LoopEndsByMatchOrPollError ==
    /\ [][(Resolving /\ ~Resolving')
            => \/ /\ pc' = "resolved"
                  /\ pc = "scan"
                  /\ chat_id'.some
                  /\ HasChatAndSenderMatches(Head(batch))
               \/ /\ pc' = "exited"
                  /\ pc = "wait"
                  /\ exitCause' = "getUpdates"]_vars
    /\ (pc = "scan" /\ ~MatchDelivered) ~> (pc = "poll")
    /\ (pc = "poll" /\ Len(pollLog) < MaxPolls) ~> (pc = "wait")
    /\ MatchDelivered ~> (pc = "resolved")

\* C18 witness: the resolver has returned at the last poll the bound allows,
\* after a poll without a result array and one with an update that did not
\* match
C18_Witness ==
    /\ pc = "resolved"
    /\ Len(pollLog) = MaxPolls
    /\ Len(processed) = 2
    /\ ~HasChatAndSenderMatches(processed[1])

\* An update without a message or without a sender username, or with a
\* matching sender and no integer chat id
Malformed(update) ==
    \/ ~update.from.some
    \/ SenderMatches(update) /\ ~update.chat.some

\* C19: looking at a malformed update neither returns nor fails: the loop
\* goes on with the rest of the array (and then with the next poll), no
\* chat id is set, and the cursor is the update's id + 1 when it has an id
\* and is left as it was when it has none.
C19_MalformedUpdateSkipped ==
    /\ [][(/\ pc = "scan"
           /\ batch # <<>>
           /\ Malformed(Head(batch))
           /\ processed' = Append(processed, Head(batch)))
            => /\ pc' = "scan"
               /\ batch' = Tail(batch)
               /\ chat_id' = chat_id
               /\ exitCause' = "none"
               /\ offset' = IF Head(batch).update_id.some
                            THEN Some(Head(batch).update_id.val + 1)
                            ELSE offset]_vars
    /\ [](ResolverFrame
            => \A i \in 1..Len(processed) :
                 Malformed(processed[i])
                    => ~(i = Len(processed) /\ pc \in {"resolved", "writing"}))
    /\ [][(pc = "scan" /\ batch = <<>> /\ pc' # "exited") => pc' = "poll"]_vars

\* C19 witness: after a matching update without a chat id, which put the
\* cursor at 6, and an update without a message and without an id, which
\* left it there, the resolver is polling again
C19_Witness ==
    /\ pc = "wait"
    /\ Len(pollLog) = 3
    /\ Len(processed) = 2
    /\ processed[1].update_id = Some(FirstUpdateId)
    /\ processed[2] = Update(None, None, None)
    /\ offset = Some(FirstUpdateId + 1)
    /\ SenderMatches(processed[1]) /\ ~processed[1].chat.some

\* C20: a poll response without a "result" array does not end resolution:
\* the cursor, the updates looked at and the chat id are as they were, the
\* run goes on, and the next poll is sent with the offset of the one before;
\* this repeats response after response.
C20_NoResultArrayPollsAgain ==
    /\ [][(pc = "wait" /\ noResult')
            => /\ pc' = "poll"
               /\ offset' = offset
               /\ processed' = processed
               /\ chat_id' = chat_id
               /\ exitCause' = "none"
               /\ ~pollFailed']_vars
    /\ [][(noResult /\ pc = "poll" /\ pc' = "wait")
            => pollLog' = Append(pollLog, pollLog[Len(pollLog)])]_vars
    /\ [](pc = "wait" => ~noResult)
    /\ []((noResult /\ pc = "poll") => exitCause = "none" /\ ~pollFailed)

\* C20 witness: the third poll, sent with offset 6 like the second, has
\* been answered without a result array; cursor and offset are still 6
C20_Witness ==
    /\ pc = "poll"
    /\ noResult
    /\ pollLog = <<None, Some(FirstUpdateId + 1), Some(FirstUpdateId + 1)>>
    /\ offset = Some(FirstUpdateId + 1)

====
